---- MODULE Spec2Model ----
(***************************************************************************)
(* Model of cr-codereview.py: the pipeline that turns the "p4 opened"      *)
(* listing into three buckets (get_changed_files), builds one diff         *)
(* fragment per entry (get_modified, get_add, get_deleted) and assembles   *)
(* them into the text that main prints.                                    *)
(*                                                                         *)
(* Text is modelled as a sequence of one-character strings, so that        *)
(* splitting, joining, slicing and the regular expression are computed on  *)
(* characters as the Python code computes them.  The two bytes of the      *)
(* UTF-8 NEL sequence '\xc2\x85' are the tokens "xC2" and "x85".           *)
(***************************************************************************)
EXTENDS Integers, Sequences, FiniteSets, TLC

VARIABLES
    pc,             \* position of main
    ISWINDOWS,      \* global flag set by main from sys.platform
    p4depot,        \* depot prefix returned by getp4depotinfo
    myclroot,       \* client root, with the trailing separator main appends
    openedStatus,   \* exit status of the "p4 opened" command (never read)
    opened,         \* stdout of the "p4 opened" command
    lines,          \* lines of the listing still to be classified
    existingfiles,  \* bucket of (depot path, local path, revision, file type)
    newfiles,       \* bucket of (depot path, local path, revision)
    deletedfiles,   \* bucket of (depot path, local path, revision)
    idx,            \* position of main's current for loop in its bucket
    newoutput,      \* the buffer main assembles
    calls,          \* one record per external step main has run, in order
    stdout,         \* what the run has printed
    exitcode        \* exit status of the run, -1 while it is running

vars == <<pc, ISWINDOWS, p4depot, myclroot, openedStatus, opened, lines,
          existingfiles, newfiles, deletedfiles, idx, newoutput, calls,
          stdout, exitcode>>

-----------------------------------------------------------------------------
(* Bounds of the model *)

MaxLines == 3

-----------------------------------------------------------------------------
(* Characters and generic string functions of Python *)

NL == "\n"
CR == "\r"

Digit == {"0", "1", "2", "3", "4", "5", "6", "7", "8", "9"}

Letter ==
    {"a", "b", "c", "d", "e", "f", "g", "h", "i", "j", "k", "l", "m", "n",
     "o", "p", "q", "r", "s", "t", "u", "v", "w", "x", "y", "z", "A", "B",
     "C", "D", "E", "F", "G", "H", "I", "J", "K", "L", "M", "N", "O", "P",
     "Q", "R", "S", "T", "U", "V", "W", "X", "Y", "Z"}

\* \w of the re module
Word == Letter \cup Digit \cup {"_"}

\* \s of the re module (the vertical tab, which no input here holds, is left
\* out)
Space == {" ", "\t", "\n", "\r", "\f"}

\* s[i:] with a 1-based i
From(s, i) == SubSeq(s, i, Len(s))

StartsWith(s, p) ==
    /\ Len(p) <= Len(s)
    /\ SubSeq(s, 1, Len(p)) = p

\* s.replace(old, new) for a one-character old
ReplaceChar(s, old, new) ==
    [i \in 1..Len(s) |-> IF s[i] = old THEN new ELSE s[i]]

\* s.replace('\xc2\x85', '\n')
RECURSIVE ReplaceNEL(_)
ReplaceNEL(s) ==
    IF Len(s) = 0 THEN <<>>
    ELSE IF Len(s) >= 2 /\ s[1] = "xC2" /\ s[2] = "x85"
         THEN <<NL>> \o ReplaceNEL(From(s, 3))
         ELSE <<s[1]>> \o ReplaceNEL(Tail(s))

\* position of the first character of s at or after i that is in set, or 0
RECURSIVE FindIn(_, _, _)
FindIn(s, i, set) ==
    IF i > Len(s) THEN 0
    ELSE IF s[i] \in set THEN i
    ELSE FindIn(s, i + 1, set)

\* s.split('\n'): always at least one piece
RECURSIVE Split(_)
Split(s) ==
    LET i == FindIn(s, 1, {NL})
    IN  IF i = 0 THEN <<s>>
        ELSE <<SubSeq(s, 1, i - 1)>> \o Split(From(s, i + 1))

\* s.splitlines() of a Python 2 str: breaks at \n, \r and \r\n, and a final
\* line break opens no further line
RECURSIVE Splitlines(_)
Splitlines(s) ==
    IF Len(s) = 0 THEN <<>>
    ELSE LET i == FindIn(s, 1, {NL, CR})
         IN  IF i = 0 THEN <<s>>
             ELSE LET next == IF s[i] = CR /\ i < Len(s) /\ s[i + 1] = NL
                              THEN i + 2 ELSE i + 1
                  IN  <<SubSeq(s, 1, i - 1)>> \o Splitlines(From(s, next))

\* sep.join(ls)
RECURSIVE Join(_, _)
Join(sep, ls) ==
    IF Len(ls) = 0 THEN <<>>
    ELSE IF Len(ls) = 1 THEN ls[1]
    ELSE ls[1] \o sep \o Join(sep, Tail(ls))

DigitChar(d) ==
    CASE d = 0 -> "0" [] d = 1 -> "1" [] d = 2 -> "2" [] d = 3 -> "3"
      [] d = 4 -> "4" [] d = 5 -> "5" [] d = 6 -> "6" [] d = 7 -> "7"
      [] d = 8 -> "8" [] d = 9 -> "9"

\* str(n) for n >= 0
RECURSIVE Str(_)
Str(n) ==
    IF n < 10 THEN <<DigitChar(n)>>
    ELSE Str(n \div 10) \o <<DigitChar(n % 10)>>

\* a slip in the trimming: only the last line feed is taken off
Rstrip_Once(s) ==
    IF Len(s) > 0 /\ s[Len(s)] = NL THEN SubSeq(s, 1, Len(s) - 1) ELSE s

\* s.rstrip('\n')
RECURSIVE Rstrip(_)
Rstrip(s) ==
    IF Len(s) > 0 /\ s[Len(s)] = NL
    THEN Rstrip(SubSeq(s, 1, Len(s) - 1))
    ELSE s

\* end (exclusive) of the longest run of characters of set starting at i
RECURSIVE RunEnd(_, _, _)
RunEnd(s, i, set) ==
    IF i <= Len(s) /\ s[i] \in set THEN RunEnd(s, i + 1, set) ELSE i

-----------------------------------------------------------------------------
(* P4FILECHANGED_REGEX = (.*?)#(\d+)\s*-\s*(\w+).*?\((\w+)\)                 *)

NoMatch == [ok |-> FALSE, g1 |-> <<>>, g2 |-> <<>>, g3 |-> <<>>, g4 |-> <<>>]

\* .*?\((\w+)\) from position i: the first "(" that is followed by a
\* non-empty run of word characters and then ")"; the result is the pair of
\* the positions of the first character of the run and of the ")", or <<0, 0>>
RECURSIVE MatchParen(_, _)
MatchParen(s, i) ==
    LET q == FindIn(s, i, {"("})
        e == RunEnd(s, q + 1, Word)
    IN  IF q = 0 THEN <<0, 0>>
        ELSE IF e > q + 1 /\ e <= Len(s) /\ s[e] = ")" THEN <<q + 1, e>>
        ELSE MatchParen(s, q + 1)

\* #(\d+)\s*-\s*(\w+).*?\((\w+)\) with the "#" at position h
MatchTail(s, h) ==
    LET d  == RunEnd(s, h + 1, Digit)
        s1 == RunEnd(s, d, Space)
        s2 == RunEnd(s, s1 + 1, Space)
        w  == RunEnd(s, s2, Word)
        p  == MatchParen(s, w)
    IN  IF /\ d > h + 1
           /\ s1 <= Len(s)
           /\ s[s1] = "-"
           /\ w > s2
           /\ p[1] # 0
        THEN [ok |-> TRUE,
              g1 |-> SubSeq(s, 1, h - 1),
              g2 |-> SubSeq(s, h + 1, d - 1),
              g3 |-> SubSeq(s, s2, w - 1),
              g4 |-> SubSeq(s, p[1], p[2] - 1)]
        ELSE NoMatch

\* the lazy first group: the first "#" at or after i from which the rest of
\* the pattern matches
RECURSIVE MatchFrom(_, _)
MatchFrom(s, i) ==
    LET h == FindIn(s, i, {"#"})
        m == MatchTail(s, h)
    IN  IF h = 0 THEN NoMatch
        ELSE IF m.ok THEN m
        ELSE MatchFrom(s, h + 1)

\* P4FILECHANGED_REGEX.search(line)
Search(line) == MatchFrom(line, 1)

-----------------------------------------------------------------------------
(* String constants of the program *)

EDIT ==
    <<"e", "d", "i", "t">>

ADD ==
    <<"a", "d", "d">>

DELETE ==
    <<"d", "e", "l", "e", "t", "e">>

DEVNULL ==
    <<"/", "d", "e", "v", "/", "n", "u", "l", "l">>

MINUS3 ==
    <<"-", "-", "-", " ">>

PLUS3 ==
    <<"+", "+", "+", " ">>

REV_OPEN ==
    <<"\t", "(", "r", "e", "v", "i", "s", "i", "o", "n", " ">>

REV_CLOSE ==
    <<")", "\n">>

ADD_HUNK_PRE ==
    <<"@", "@", " ", "-", "0", ",", "0", " ", "+", "1", ",">>

HUNK_END ==
    <<" ", "@", "@", "\n">>

DEL_HUNK_PRE ==
    <<"@", "@", " ", "-", "1", ",">>

DEL_HUNK_MID ==
    <<" ", "+", "0", ",", "0">>

DEPOTFILE ==
    <<".", ".", ".", " ", "d", "e", "p", "o", "t", "F", "i", "l", "e", " ">>

CLIENTFILE ==
    <<".", ".", ".", " ", "c", "l", "i", "e", "n", "t", "F", "i", "l", "e",
      " ">>

REVLINE ==
    <<".", ".", ".", " ", "r", "e", "v", " ">>

TYPELINE ==
    <<".", ".", ".", " ", "t", "y", "p", "e", " ">>

NOTHING_MSG ==
    <<"N", "o", "t", "h", "i", "n", "g", " ", "m", "o", "d", "i", "f", "i",
      "e", "d", ",", " ", "a", "d", "d", "e", "d", ",", " ", "n", "o", "r",
      " ", "d", "e", "l", "e", "t", "e", "d", "\n">>

-----------------------------------------------------------------------------
(* Inputs: what the environment can hand to the run *)

UnixRoot ==
    <<"/", "w", "s">>

WinRoot ==
    <<"C", ":", "\\", "w", "s">>

DepotRoot ==
    <<"/", "/", "d", "e", "p", "o", "t", "/">>

LineEdit ==
    <<"/", "/", "d", "e", "p", "o", "t", "/", "a", "#", "3", " ", "-", " ",
      "e", "d", "i", "t", " ", "c", "h", "a", "n", "g", "e", " ", "(", "t",
      "e", "x", "t", ")">>

LineAdd ==
    <<"/", "/", "d", "e", "p", "o", "t", "/", "b", "#", "1", " ", "-", " ",
      "a", "d", "d", " ", "c", "h", "a", "n", "g", "e", " ", "(", "t", "e",
      "x", "t", ")">>

LineDelete ==
    <<"/", "/", "d", "e", "p", "o", "t", "/", "c", "#", "2", " ", "-", " ",
      "d", "e", "l", "e", "t", "e", " ", "c", "h", "a", "n", "g", "e", " ",
      "(", "t", "e", "x", "t", ")">>

LineBranch ==
    <<"/", "/", "d", "e", "p", "o", "t", "/", "d", "#", "4", " ", "-", " ",
      "b", "r", "a", "n", "c", "h", " ", "c", "h", "a", "n", "g", "e", " ",
      "(", "t", "e", "x", "t", ")">>

LineOther ==
    <<"/", "/", "o", "t", "h", "e", "r", "/", "e", "#", "1", " ", "-", " ",
      "e", "d", "i", "t", " ", "c", "h", "a", "n", "g", "e", " ", "(", "t",
      "e", "x", "t", ")">>

LineInfo ==
    <<"f", " ", "-", " ", "f", "i", "l", "e", "(", "s", ")", " ", "n", "o",
      "t", " ", "o", "p", "e", "n", "e", "d", ".">>

LineHash ==
    <<"/", "/", "d", "e", "p", "o", "t", "/", "g", "#", "h", "#", "1", "2",
      " ", "-", "a", "d", "d", " ", "d", "e", "f", "a", "u", "l", "t", " ",
      "c", "h", "a", "n", "g", "e", " ", "(", "x", "t", "e", "x", "t", ")">>

DiffHeader ==
    <<"-", "-", "-", " ", "a", "\t", "2", "0", "2", "0", "\n", "+", "+",
      "+", " ", "a", "\t", "2", "0", "2", "1", "\n">>

DiffHunk ==
    <<"@", "@", " ", "-", "1", " ", "+", "1", " ", "@", "@", "\n", "-",
      "x", "\n", "+", "y", "\n">>

\* the lines a "p4 opened" listing is made of
ListingLines ==
    {LineEdit, LineAdd, LineDelete, LineBranch, LineOther, LineInfo, LineHash}

RECURSIVE SeqsUpTo(_, _)
SeqsUpTo(S, n) ==
    IF n = 0 THEN {<<>>}
    ELSE LET shorter == SeqsUpTo(S, n - 1)
         IN  shorter \cup {Append(s, x) : s \in shorter, x \in S}

\* the text of a listing: every line ends with a line feed
RECURSIVE Unlines(_)
Unlines(ls) ==
    IF Len(ls) = 0 THEN <<>> ELSE Head(ls) \o <<NL>> \o Unlines(Tail(ls))

Listings == {Unlines(ls) : ls \in SeqsUpTo(ListingLines, MaxLines)}

\* what "p4 diff" prints when the options given on the command line replace
\* the default -du: one "====" line naming the file, then the changes
DiffNormal ==
    <<"=", "=", "=", "=", " ", "/", "/", "d", "e", "p", "o", "t", "/", "a",
      "#", "3", " ", "-", " ", "/", "w", "s", "/", "a", " ", "=", "=", "=",
      "=", "\n", "1", "c", "1", "\n", "<", " ", "x", "\n", "-", "-", "-",
      "\n", ">", " ", "y", "\n">>

\* stdout of "p4 diff": nothing, the two header lines of -du alone, header
\* and hunk, and the output of another diff format
DiffOutputs == {<<>>, DiffHeader, DiffHeader \o DiffHunk, DiffNormal}

\* content of a local file, and stdout of "p4 print -q"
Contents ==
    {<<>>,
     <<"a", "\r", "\n", "b">>,
     <<"a", "xC2", "x85", "b", "\n">>}

-----------------------------------------------------------------------------
(* get_modified, get_add, get_deleted *)

\* MODIFIED_STR % (mfile, efile, rev, fltype)
MODIFIED_STR(mfile, efile, rev, fltype) ==
    DEPOTFILE \o mfile \o <<NL>> \o
    CLIENTFILE \o efile \o <<NL>> \o
    REVLINE \o rev \o <<NL>> \o
    TYPELINE \o fltype \o <<NL>> \o
    <<NL>>

\* lines[2:]
DropTwo(ls) == SubSeq(ls, 3, Len(ls))

\* get_modified, output being the stdout of "p4 diff"
get_modified(mfile, efile, rev, fltype, output) ==
    MODIFIED_STR(mfile, efile, rev, fltype) \o
    Join(<<NL>>, DropTwo(Splitlines(output))) \o <<NL>>

\* the lines get_add reads from the file
AddLines(content) == Splitlines(ReplaceNEL(content))

\* get_add, content being what open(afile).read() returns
get_add(dfile, content, rev) ==
    LET ls == AddLines(content)
    IN  <<NL>> \o MINUS3 \o DEVNULL \o <<NL>> \o
        PLUS3 \o dfile \o REV_OPEN \o rev \o REV_CLOSE \o
        ADD_HUNK_PRE \o Str(Len(ls)) \o HUNK_END \o
        <<"+">> \o Join(<<NL, "+">>, ls) \o <<NL>>

\* the lines get_deleted takes from the stdout of "p4 print -q"
DeletedLines(output) == Splitlines(output)

\* get_deleted, output being the stdout of "p4 print -q"
get_deleted(dfile, output, rev) ==
    LET ls == DeletedLines(output)
    IN  <<NL>> \o MINUS3 \o dfile \o REV_OPEN \o rev \o REV_CLOSE \o
        PLUS3 \o DEVNULL \o <<NL>> \o
        DEL_HUNK_PRE \o Str(Len(ls)) \o DEL_HUNK_MID \o HUNK_END \o
        <<"-">> \o Join(<<NL, "-">>, ls) \o <<NL>>

-----------------------------------------------------------------------------
(* The run: main from the call of get_p4files on, with no file arguments *)

env == <<ISWINDOWS, p4depot, myclroot, openedStatus, opened>>
buckets == <<existingfiles, newfiles, deletedfiles>>

\* os.path.sep
Sep == IF ISWINDOWS THEN "\\" ELSE "/"

Init ==
    /\ pc = "opened"
    /\ ISWINDOWS \in BOOLEAN
    /\ p4depot = DepotRoot
    /\ myclroot = (IF ISWINDOWS THEN WinRoot ELSE UnixRoot) \o <<Sep>>
    /\ openedStatus \in {0, 1}
    /\ opened \in IF openedStatus = 0 THEN Listings ELSE {<<>>}
    /\ lines = <<>>
    /\ existingfiles = <<>>
    /\ newfiles = <<>>
    /\ deletedfiles = <<>>
    /\ idx = 1
    /\ newoutput = <<>>
    /\ calls = <<>>
    /\ stdout = <<>>
    /\ exitcode = -1

\* get_changed_files: "p4 opened" has run, its stdout is split at line feeds
RunOpened ==
    /\ pc = "opened"
    /\ lines' = Split(opened)
    /\ pc' = "classify"
    /\ UNCHANGED <<env, buckets, idx, newoutput, calls, stdout, exitcode>>

\* the local path get_changed_files builds from the depot path myf
LocalPath(myf) ==
    IF ISWINDOWS
    THEN myclroot \o ReplaceChar(From(myf, 3), "/", "\\")
    ELSE myclroot \o From(myf, 3)

\* a slip in the elif chain: delete lands with the added files
BucketOf_DeleteAsAdd(changetype) ==
    IF changetype = EDIT THEN 1
    ELSE IF changetype = ADD THEN 2
    ELSE IF changetype = DELETE THEN 2
    ELSE 0

\* the bucket a change verb selects: 1 existingfiles, 2 newfiles,
\* 3 deletedfiles, 0 none
BucketOf(changetype) ==
    IF changetype = EDIT THEN 1
    ELSE IF changetype = ADD THEN 2
    ELSE IF changetype = DELETE THEN 3
    ELSE 0

\* one turn of the for loop of get_changed_files
ClassifyLine ==
    /\ pc = "classify"
    /\ lines # <<>>
    /\ LET match == Search(Head(lines))
           myf == LocalPath(match.g1)
           b == IF match.ok THEN BucketOf(match.g3) ELSE 0
       IN  /\ existingfiles' =
                IF b = 1
                THEN Append(existingfiles, <<match.g1, myf, match.g2, match.g4>>)
                ELSE existingfiles
           /\ newfiles' =
                IF b = 2
                THEN Append(newfiles, <<match.g1, myf, match.g2>>)
                ELSE newfiles
           /\ deletedfiles' =
                IF b = 3
                THEN Append(deletedfiles, <<match.g1, myf, match.g2>>)
                ELSE deletedfiles
    /\ lines' = Tail(lines)
    /\ UNCHANGED <<pc, env, idx, newoutput, calls, stdout, exitcode>>

\* get_changed_files and get_p4files return the three buckets to main
ReturnBuckets ==
    /\ pc = "classify"
    /\ lines = <<>>
    /\ pc' = "check"
    /\ UNCHANGED <<env, lines, buckets, idx, newoutput, calls, stdout, exitcode>>

\* the test main makes before it assembles anything
NothingToDo ==
    /\ Len(existingfiles) = 0
    /\ Len(newfiles) = 0
    /\ Len(deletedfiles) = 0

\* a slip in the exit status: the empty change set ends as a failure
ExitNothing_Failure ==
    /\ pc = "check"
    /\ Len(existingfiles) = 0
    /\ Len(newfiles) = 0
    /\ Len(deletedfiles) = 0
    /\ stdout' = stdout \o NOTHING_MSG \o <<NL>>
    /\ exitcode' = 1
    /\ pc' = "done"
    /\ UNCHANGED <<env, lines, buckets, idx, newoutput, calls>>

\* main: print the message and sys.exit(0)
ExitNothing ==
    /\ pc = "check"
    /\ NothingToDo
    /\ stdout' = stdout \o NOTHING_MSG \o <<NL>>
    /\ exitcode' = 0
    /\ pc' = "done"
    /\ UNCHANGED <<env, lines, buckets, idx, newoutput, calls>>

\* main: newoutput = ""
StartOutput ==
    /\ pc = "check"
    /\ ~NothingToDo
    /\ newoutput' = <<>>
    /\ idx' = 1
    /\ pc' = "modified"
    /\ UNCHANGED <<env, lines, buckets, calls, stdout, exitcode>>

\* a slip in the concatenation: the fragment goes in front of the buffer
Accumulate_Prepend(buffer, output) == output \o buffer

\* main: newoutput += output
Accumulate(buffer, output) == buffer \o output

\* one turn of the loop over existingfiles: "p4 diff" runs, get_modified
\* builds the fragment from whatever it printed
ModifiedStep ==
    /\ pc = "modified"
    /\ idx <= Len(existingfiles)
    /\ \E out \in DiffOutputs :
         LET e == existingfiles[idx]
             output == get_modified(e[1], e[2], e[3], e[4], out)
         IN  /\ newoutput' = Accumulate(newoutput, output)
             /\ calls' = Append(calls,
                    [cmd |-> "diff", dfile |-> e[1], arg |-> e[2],
                     rev |-> e[3], ok |-> TRUE, out |-> out,
                     output |-> output])
    /\ idx' = idx + 1
    /\ UNCHANGED <<pc, env, lines, buckets, stdout, exitcode>>

ModifiedDone ==
    /\ pc = "modified"
    /\ idx > Len(existingfiles)
    /\ idx' = 1
    /\ pc' = "added"
    /\ UNCHANGED <<env, lines, buckets, newoutput, calls, stdout, exitcode>>

\* one turn of the loop over newfiles: get_add reads the local file
AddedStep ==
    /\ pc = "added"
    /\ idx <= Len(newfiles)
    /\ \E content \in Contents :
         LET e == newfiles[idx]
             output == get_add(e[1], content, e[3])
         IN  /\ newoutput' = Accumulate(newoutput, output)
             /\ calls' = Append(calls,
                    [cmd |-> "open", dfile |-> e[1], arg |-> e[2],
                     rev |-> e[3], ok |-> TRUE, out |-> content,
                     output |-> output])
    /\ idx' = idx + 1
    /\ UNCHANGED <<pc, env, lines, buckets, stdout, exitcode>>

\* open(afile) raises IOError: nothing catches it, the run ends with the
\* traceback on stderr and exit status 1
AddedCrash ==
    /\ pc = "added"
    /\ idx <= Len(newfiles)
    /\ LET e == newfiles[idx]
       IN  calls' = Append(calls,
                [cmd |-> "open", dfile |-> e[1], arg |-> e[2],
                 rev |-> e[3], ok |-> FALSE, out |-> <<>>,
                 output |-> <<>>])
    /\ exitcode' = 1
    /\ pc' = "crashed"
    /\ UNCHANGED <<env, lines, buckets, idx, newoutput, stdout>>

AddedDone ==
    /\ pc = "added"
    /\ idx > Len(newfiles)
    /\ idx' = 1
    /\ pc' = "deleted"
    /\ UNCHANGED <<env, lines, buckets, newoutput, calls, stdout, exitcode>>

\* one turn of the loop over deletedfiles: "p4 print -q" runs, get_deleted
\* builds the fragment from whatever it printed
DeletedStep ==
    /\ pc = "deleted"
    /\ idx <= Len(deletedfiles)
    /\ \E out \in Contents :
         LET e == deletedfiles[idx]
             output == get_deleted(e[1], out, e[3])
         IN  /\ newoutput' = Accumulate(newoutput, output)
             /\ calls' = Append(calls,
                    [cmd |-> "print", dfile |-> e[1], arg |-> e[1],
                     rev |-> e[3], ok |-> TRUE, out |-> out,
                     output |-> output])
    /\ idx' = idx + 1
    /\ UNCHANGED <<pc, env, lines, buckets, stdout, exitcode>>

DeletedDone ==
    /\ pc = "deleted"
    /\ idx > Len(deletedfiles)
    /\ pc' = "strip"
    /\ UNCHANGED <<env, lines, buckets, idx, newoutput, calls, stdout, exitcode>>

\* main: newoutput = str(newoutput).rstrip('\n'); print newoutput
PrintOutput ==
    /\ pc = "strip"
    /\ newoutput' = Rstrip(newoutput)
    /\ stdout' = stdout \o newoutput' \o <<NL>>
    /\ exitcode' = 0
    /\ pc' = "done"
    /\ UNCHANGED <<env, lines, buckets, idx, calls>>

Next ==
    \/ RunOpened
    \/ ClassifyLine
    \/ ReturnBuckets
    \/ ExitNothing
    \/ StartOutput
    \/ ModifiedStep
    \/ ModifiedDone
    \/ AddedStep
    \/ AddedCrash
    \/ AddedDone
    \/ DeletedStep
    \/ DeletedDone
    \/ PrintOutput

Spec == Init /\ [][Next]_vars

-----------------------------------------------------------------------------
(* What the claims speak of *)

\* the lines of the listing, each with what the pattern finds in it
Parsed ==
    LET all == Split(opened)
    IN  [i \in 1..Len(all) |-> Search(all[i])]

\* a line is accepted when the pattern matches it and its verb is one of
\* edit, add and delete
Accepted(m) ==
    /\ m.ok
    /\ m.g3 \in {EDIT, ADD, DELETE}

\* depot path and revision of the lines of ms whose verb is verb, in order
EntriesFor(ms, verb) ==
    LET sel == SelectSeq(ms, LAMBDA m : m.ok /\ m.g3 = verb)
    IN  [i \in 1..Len(sel) |-> <<sel[i].g1, sel[i].g2>>]

\* depot path and revision of the entries of a bucket, in order
Keys(bucket) == [i \in 1..Len(bucket) |-> <<bucket[i][1], bucket[i][3]>>]

AllEntries == existingfiles \o newfiles \o deletedfiles

RECURSIVE Flatten(_)
Flatten(ss) == IF Len(ss) = 0 THEN <<>> ELSE Head(ss) \o Flatten(Tail(ss))

\* the fragments main has received, in the order it received them
Fragments == [i \in 1..Len(calls) |-> calls[i].output]

Finished == pc \in {"done", "crashed"}

\* C1: every accepted line of the listing makes exactly one entry, in the
\* bucket its verb selects (edit: existingfiles, add: newfiles, delete:
\* deletedfiles), and no other line makes an entry
C1_Partition ==
    pc = "check" =>
        LET ms == Parsed
        IN  /\ Keys(existingfiles) = EntriesFor(ms, EDIT)
            /\ Keys(newfiles) = EntriesFor(ms, ADD)
            /\ Keys(deletedfiles) = EntriesFor(ms, DELETE)
            /\ Len(AllEntries) =
                 Cardinality({i \in 1..Len(ms) : Accepted(ms[i])})

\* a listing with an edit, an add and a line of another verb is classified
C1_Witness ==
    /\ pc = "check"
    /\ Len(existingfiles) = 1
    /\ Len(newfiles) = 1
    /\ LET ms == Parsed
       IN  \E i \in 1..Len(ms) : ms[i].ok /\ ~Accepted(ms[i])

\* what each external step was run for, in order
StepsRun == [i \in 1..Len(calls) |-> <<calls[i].cmd, calls[i].dfile, calls[i].rev>>]

Tagged(cmd, keys) == [i \in 1..Len(keys) |-> <<cmd, keys[i][1], keys[i][2]>>]

\* C2: the buffer is the fragments of the edit lines, then those of the add
\* lines, then those of the delete lines, each kind in listing order
C2_Order ==
    pc = "strip" =>
        LET ms == Parsed
        IN  /\ StepsRun = Tagged("diff", EntriesFor(ms, EDIT))
                          \o Tagged("open", EntriesFor(ms, ADD))
                          \o Tagged("print", EntriesFor(ms, DELETE))
            /\ newoutput = Flatten(Fragments)

\* the listing starts with an add and goes on with two different edits
C2_Witness ==
    /\ pc = "strip"
    /\ Len(calls) = 3
    /\ calls[1].cmd = "diff"
    /\ calls[2].cmd = "diff"
    /\ calls[1].dfile # calls[2].dfile
    /\ calls[3].cmd = "open"
    /\ Parsed[1].g3 = ADD

\* the fragment the claim describes for an added file whose normalized
\* content has the lines ls: the headers, a hunk header declaring Len(ls)
\* lines, and one "+" line for each line of ls
AddFragmentFor(dfile, rev, ls) ==
    <<NL>> \o MINUS3 \o DEVNULL \o <<NL>> \o
    PLUS3 \o dfile \o REV_OPEN \o rev \o REV_CLOSE \o
    ADD_HUNK_PRE \o Str(Len(ls)) \o HUNK_END \o
    Flatten([i \in 1..Len(ls) |-> <<"+">> \o ls[i] \o <<NL>>])

\* C3: for a file of N lines, N >= 0, get_add gives the hunk header
\* "@@ -0,0 +1,N @@" followed by exactly N body lines, "+" and the line
C3_AddedHunk ==
    \A i \in 1..Len(calls) :
        (calls[i].cmd = "open" /\ calls[i].ok) =>
            calls[i].output =
                AddFragmentFor(calls[i].dfile, calls[i].rev,
                               AddLines(calls[i].out))

\* line k of the deleted fragment that mirrors line k of an added fragment
MirrorLine(k, line, dfile, rev) ==
    IF k = 2 THEN MINUS3 \o dfile \o REV_OPEN \o rev \o <<")">>
    ELSE IF k = 3 THEN PLUS3 \o DEVNULL
    ELSE IF k = 4
         THEN DEL_HUNK_PRE
              \o SubSeq(line, Len(ADD_HUNK_PRE) + 1, Len(line) - 3)
              \o DEL_HUNK_MID \o <<" ", "@", "@">>
    ELSE IF Len(line) > 0 /\ line[1] = "+" THEN <<"-">> \o Tail(line)
    ELSE line

\* the deleted fragment del mirrors the added fragment add
Mirror(add, del, dfile, rev) ==
    LET a == Split(add)
        d == Split(del)
    IN  /\ Len(a) = Len(d)
        /\ \A k \in 1..Len(a) : d[k] = MirrorLine(k, a[k], dfile, rev)

\* C4: for the same content, the fragment of get_deleted is the mirror of
\* the fragment of get_add: headers swapped, the same declared line count,
\* the same number of body lines, "-" where the other has "+"
C4_Mirror ==
    \A i, j \in 1..Len(calls) :
        (/\ calls[i].cmd = "open"
         /\ calls[i].ok
         /\ calls[j].cmd = "print"
         /\ calls[i].out = calls[j].out) =>
            Mirror(calls[i].output, calls[j].output,
                   calls[j].dfile, calls[j].rev)

\* C5: no entry whose depot path lies outside p4depot reaches a bucket
C5_OutsideSkipped ==
    \A i \in 1..Len(AllEntries) : StartsWith(AllEntries[i][1], p4depot)

\* the local path the claim describes for a depot path under p4depot
TranslatedPath(myf) ==
    LET rest == From(myf, Len(p4depot) + 1)
    IN  myclroot \o (IF ISWINDOWS THEN ReplaceChar(rest, "/", "\\") ELSE rest)

\* C6: the local path of an entry under p4depot is myclroot followed by what
\* is left of the depot path once p4depot is taken off its front
C6_PrefixReplaced ==
    \A i \in 1..Len(AllEntries) :
        StartsWith(AllEntries[i][1], p4depot) =>
            AllEntries[i][2] = TranslatedPath(AllEntries[i][1])

\* "p4 opened" failed or printed nothing
ListingUnavailable == openedStatus # 0 \/ opened = <<>>

\* C7: a run whose listing is unavailable ends with a nonzero exit status
C7_ListingFatal ==
    (Finished /\ ListingUnavailable) => exitcode # 0

\* no line of the listing is accepted
NoAccepted ==
    LET ms == Parsed
    IN  \A i \in 1..Len(ms) : ~Accepted(ms[i])

\* C8: when no line of the listing is accepted the buckets are empty, and
\* with empty buckets the run prints the message alone, runs no external
\* step, builds no diff text and ends with exit status 0
C8_NothingChanged ==
    /\ (pc = "check" /\ NoAccepted) => NothingToDo
    /\ (pc \notin {"opened", "classify", "check"} /\ NothingToDo) =>
          /\ pc = "done"
          /\ calls = <<>>
          /\ newoutput = <<>>
          /\ stdout = NOTHING_MSG \o <<NL>>
          /\ exitcode = 0

\* a listing that has lines, one of them with another verb, and none accepted
C8_Witness ==
    /\ pc = "done"
    /\ NothingToDo
    /\ LET ms == Parsed
       IN  /\ Len(ms) > 2
           /\ \E i \in 1..Len(ms) : ms[i].ok

\* the external step of a call failed or printed nothing
StepFailed(c) == ~c.ok \/ c.out = <<>>

\* C9: an entry whose external step fails or gives nothing contributes an
\* empty fragment, and the run goes on to its end
C9_EmptyFragment ==
    /\ pc # "crashed"
    /\ \A i \in 1..Len(calls) : StepFailed(calls[i]) => calls[i].output = <<>>

\* C10: the final buffer is the concatenation of the fragments without the
\* line feeds at its very end: it is a prefix of the concatenation, what is
\* cut off is line feeds only, and it does not end in a line break
C10_Trimmed ==
    (pc = "done" /\ calls # <<>>) =>
        LET raw == Flatten(Fragments)
            n == Len(newoutput)
        IN  /\ n <= Len(raw)
            /\ SubSeq(raw, 1, n) = newoutput
            /\ \A k \in (n + 1)..Len(raw) : raw[k] = NL
            /\ n > 0 => newoutput[n] \notin {NL, CR}

\* two modified entries whose diffs are empty: each fragment ends in three
\* line feeds, those of the first stay and those of the second go
C10_Witness ==
    /\ pc = "done"
    /\ Len(calls) = 2
    /\ calls[1].out = <<>>
    /\ calls[2].out = <<>>
    /\ Len(Flatten(Fragments)) - Len(newoutput) = 3

\* a line of the native diff output that names the file: "==== ...",
\* "--- ..." or "+++ ..."
IsFileHeader(line) ==
    \/ StartsWith(line, <<"=", "=", "=", "=", " ">>)
    \/ StartsWith(line, MINUS3)
    \/ StartsWith(line, PLUS3)

\* the number of file-identification lines the native output ls starts with
RECURSIVE HeaderLength(_)
HeaderLength(ls) ==
    IF Len(ls) > 0 /\ IsFileHeader(Head(ls))
    THEN 1 + HeaderLength(Tail(ls))
    ELSE 0

\* the fragment the claim describes for a modified entry: the header block,
\* then the lines of the native output that follow its file header
ModifiedFragmentFor(e, out) ==
    LET ls == Splitlines(out)
    IN  MODIFIED_STR(e[1], e[2], e[3], e[4])
        \o Join(<<NL>>, SubSeq(ls, HeaderLength(ls) + 1, Len(ls)))
        \o <<NL>>

\* C11: the fragment of a modified entry is the header block (depot path,
\* client path, revision, file type) followed by the native diff output
\* without its leading file-identification lines, every other line kept
C11_HeaderRemoved ==
    \A i \in 1..Len(calls) :
        (calls[i].cmd = "diff" /\ i <= Len(existingfiles)) =>
            calls[i].output = ModifiedFragmentFor(existingfiles[i], calls[i].out)

====
